---- MODULE Spec2Model ----
(***************************************************************************)
(* Model of the multi-browser scraper of scraper/multi_browser_scraper.py: *)
(* the orchestrator multi_browser_scrape, the worker task                  *)
(* browser_worker_task, the retry wrapper scrape_with_retry and the sink   *)
(* ThreadSafeCSVWriter.  asyncio schedules tasks cooperatively, so one     *)
(* action is the code a task runs from one await to the next.              *)
(***************************************************************************)
EXTENDS Integers, Sequences, FiniteSets, TLC

\* ---------------------------------------------------------------- bounds
MaxWork == 5        \* hotels * days_ahead * num_browsers of a run
MaxBrowsers == 2    \* num_browsers of a run
MaxWriters == 3     \* threads that call append_rows at the same time
MaxRows == 2        \* rows of one append_rows call of a writer thread
MaxProxies == 2     \* configured proxies
MaxShift == 1       \* orders of USER_AGENTS a shuffle is drawn from
MaxPaced == 11      \* hotels of the run that reaches a session break

\* ------------------------------------------------------ program constants
Threshold == 5          \* consecutive_errors >= 5 restarts the browser
max_retries == 3        \* default of scrape_with_retry / browser_worker_task
retry_delay == 5        \* default of scrape_with_retry, in seconds
SessionBreakEvery == 10 \* hotels_processed % 10 == 0 takes a session break

None == 0

Workers == 0 .. (MaxBrowsers - 1)
Hotels == 1 .. MaxWork

\* The runs explored: every (hotels, num_browsers, days_ahead) whose total
\* work fits the bound, and the run of one worker on one hotel over
\* Threshold + 1 days (it has a date after a restart).
Configs ==
    { c \in [hotels : 1 .. MaxWork, num_browsers : 1 .. MaxBrowsers,
             days_ahead : 1 .. MaxWork] :
        c.hotels * c.days_ahead * c.num_browsers <= MaxWork }
    \cup {[hotels |-> 1, num_browsers |-> 1, days_ahead |-> Threshold + 1]}

VARIABLES
    config,          \* arguments of multi_browser_scrape
    opc,             \* position of multi_browser_scrape
    mpc,             \* position of monitor_progress
    hotel_queue,     \* asyncio.Queue: the items not yet dequeued
    unfinished,      \* asyncio.Queue._unfinished_tasks
    csv_header,      \* header rows written to the sink file
    csv_rows,        \* data rows of the sink file
    rows_written,    \* ThreadSafeCSVWriter.rows_written
    results,         \* the shared result list
    wk,              \* per worker: BrowserWorker fields and task locals
    open_browsers,   \* browser processes alive: <<worker, launch number>>
    launched,        \* per worker: browsers launched so far
    acquired,        \* sessions create_browser_with_fingerprint returned
    dequeued,        \* per hotel: the workers that dequeued it, in order
    task_done_calls, \* per hotel: task_done() calls made for it
    attempted,       \* <<hotel, day>> whose date iteration has finished
    last_scrape,     \* per worker: how its last scrape_with_retry ended
    restarts,        \* per worker: restart branches entered
    fail_streak,     \* per worker: failed date outcomes in a row
    due,             \* per worker: times fail_streak reached Threshold
    lock,            \* ThreadSafeCSVWriter.lock: the thread that holds it
    writers,         \* per writer thread: its append_rows call
    PROXY_LIST,      \* the configured proxies
    deploy           \* per deployment: its run up to the workers' creation

vars == <<config, opc, mpc, hotel_queue, unfinished, csv_header, csv_rows,
          rows_written,
          results, wk, open_browsers, launched, acquired, dequeued,
          task_done_calls, attempted, last_scrape, restarts, fail_streak,
          due, lock, writers, PROXY_LIST, deploy>>

\* The state of a concurrent use of the sink alone and of the runs' setup.
aside == <<lock, writers, PROXY_LIST, deploy>>

shared == <<hotel_queue, unfinished, csv_rows, rows_written, results>>
ghosts == <<dequeued, task_done_calls, attempted, last_scrape, restarts,
            fail_streak, due>>
ghosts_but_scrape == <<dequeued, task_done_calls, attempted, restarts,
                       fail_streak, due>>

\* last_scrape tells how the scrape_with_retry call that ended in the
\* worker's latest step ended; any other step of the worker clears it.
NoScrape ==
    [calls |-> 0, cause |-> "none", ended |-> "none", kind |-> "none",
     before |-> 0, hotel |-> 0, day |-> 0, waits |-> <<>>]

ClearScrape(w) == [last_scrape EXCEPT ![w] = NoScrape]

\* The record of a scrape_with_retry call of worker record r that ended
\* after `calls` extraction calls: cause is "none" (the extractor returned),
\* "exhausted" (every call raised a retryable error) or "terminal" (a call
\* raised another error); ended is "returned", "placeholder" or "raised";
\* waits are the backoff waits the call made.
ScrapeEnded(r, calls, cause, ended, kind) ==
    [calls |-> calls, cause |-> cause, ended |-> ended, kind |-> kind,
     before |-> r.consecutive_errors, hotel |-> r.hotel, day |-> r.day_offset,
     waits |-> r.waits]
sessions == <<open_browsers, launched, acquired>>

\* ----------------------------------------------------------- RoomData
\* Field names of the RoomData dataclass.
RoomDataFields ==
    {"hotel_name", "date", "room_type", "price", "currency", "amenities",
     "is_available", "cancellation_policy", "meal_plan", "max_occupancy",
     "bed_type", "hotel_location", "hotel_rating", "hotel_star_rating",
     "hotel_review_count"}

\* Keyword arguments scrape_with_retry passes for its placeholder.
ErrorPlaceholderKwargs ==
    {"hotel_name", "date", "room_type", "price", "currency", "amenities",
     "is_available", "availability_count", "hotel_location", "hotel_rating",
     "hotel_star_rating", "hotel_review_count"}

\* A dataclass __init__ raises TypeError on an unknown keyword.
RoomDataInit(kwargs) ==
    IF kwargs \subseteq RoomDataFields THEN "ok" ELSE "TypeError"

RoomData(h, d, t, avail) ==
    [hotel_name |-> h, date |-> d, room_type |-> t, is_available |-> avail]

\* RoomData.to_csv_row: the availability flag becomes text.
to_csv_row(r) ==
    [hotel_name |-> r.hotel_name, date |-> r.date, room_type |-> r.room_type,
     availability |-> IF r.is_available THEN "Available" ELSE "Not Available"]

RECURSIVE CsvRows(_)
CsvRows(rooms) ==
    IF rooms = <<>> THEN <<>>
    ELSE <<to_csv_row(Head(rooms))>> \o CsvRows(Tail(rooms))

\* ------------------------------------------------------------ extractor
\* What one call of scrape_hotel_rooms can do: return real rooms (two of
\* them, "rooms", or one, "room", which only a stub returns), return a
\* "No Rooms Found" placeholder, return its own "Error" placeholder (any
\* exception after navigation started), or raise before its try block.
ReturnKinds == {"rooms", "norooms", "error"}
RaiseKinds == {"raise_timeout", "raise_value"}

ExtractorReturn(kind, h, d) ==
    CASE kind = "rooms" ->
            <<RoomData(h, d, "Deluxe", TRUE), RoomData(h, d, "Suite", TRUE)>>
      [] kind = "room" -> <<RoomData(h, d, "Deluxe", TRUE)>>
      [] kind = "norooms" -> <<RoomData(h, d, "No Rooms Found", FALSE)>>
      [] kind = "error" -> <<RoomData(h, d, "Error", FALSE)>>

\* str(e).lower() of the two exceptions modelled.
ErrorStr(kind) ==
    IF kind = "raise_timeout" THEN "timeout" ELSE "invalid url"

RetryableMarkers ==
    {"err_internet_disconnected", "err_connection_reset",
     "err_connection_refused", "err_network_changed", "timeout", "net::err"}

retryable(kind) == ErrorStr(kind) \in RetryableMarkers

\* ------------------------------------------------------------- the sink
\* ThreadSafeCSVWriter.append_rows: nothing for an empty list, else the rows
\* are written in order under the lock and counted.
append_rows(state, rows) ==
    IF rows = <<>> THEN state
    ELSE [rows |-> state.rows \o rows, written |-> state.written + Len(rows)]

Sink == [rows |-> csv_rows, written |-> rows_written]

\* "csv_headers" of multi_browser_scrape: the columns of the sink file.
csv_headers ==
    <<"hotel_name", "hotel_location", "hotel_rating", "hotel_star_rating",
      "hotel_review_count", "date", "room_type", "price", "currency",
      "amenities", "availability", "availability_count",
      "cancellation_policy", "meal_plan">>

\* A sink whose file is created empty, without a header row.
init_csv_NoHeader(headers) == [header |-> <<>>, rows |-> <<>>]

\* ThreadSafeCSVWriter._init_csv: the file is opened with mode "w" (it is
\* created or emptied) and writeheader() writes the header row.
init_csv(headers) == [header |-> <<headers>>, rows |-> <<>>]

\* ------------------------------------- the sink under concurrent threads
\* The threads that call append_rows at the same time, one call each.
Writers == 0 .. (MaxWriters - 1)

NoWriter == [pc |-> "absent", rows |-> <<>>, next |-> 0]

\* The rows thread t passes: m rows of its own, numbered in the order given.
WriterRows(t, m) ==
    CsvRows([k \in 1 .. m |-> RoomData(t, k, "Deluxe", TRUE)])

\* A lock that every thread can take at any time.
CanAcquire_NoLock(l) == TRUE

\* "with self.lock": threading.Lock is taken only when no thread holds it.
CanAcquire(l) == l = {}

\* A file opened with mode "w": the rows it held are lost.
WriteRow_Truncate(file, row) == <<row>>

\* "open(self.filepath, "a")" and writerows: a row written goes after the
\* rows of the file.
WriteRow(file, row) == Append(file, row)

SinkIdle ==
    /\ lock = {}
    /\ writers = [t \in Writers |-> NoWriter]

\* ------------------------------------------------------------ the queue
\* A get that hands out the head and leaves it in the queue.
QueueGet_Peek(q) == [item |-> Head(q), rest |-> q]

\* asyncio.Queue.get on a non-empty queue: the head leaves the queue.
QueueGet(q) == [item |-> Head(q), rest |-> Tail(q)]

\* asyncio.Queue.task_done
TaskDone(n) == n - 1

\* asyncio.Queue.join returns when no put item is left unfinished.
JoinReturns(n) == n = 0

\* ------------------------------------------------------------- sessions
\* The playwright driver is up from "async with async_playwright()" until
\* that block is left, by return or by cancellation.
PlaywrightUp == opc \in {"start", "join", "gather", "unwinding"}

\* create_browser_with_fingerprint: the launch fails, or the browser is
\* launched and a later step (context, page) fails, or a session is returned.
CreateOutcomes ==
    IF PlaywrightUp THEN {"ok", "launch_fail", "context_fail"}
    ELSE {"launch_fail"}

\* The browser the worker's page belongs to is alive.
SessionAlive(w) == wk[w].page # None /\ <<w, wk[w].page>> \in open_browsers

\* A dead page fails every navigation, which scrape_hotel_rooms turns into
\* its "Error" placeholder.
ExtractOutcomes(w) ==
    IF SessionAlive(w) THEN ReturnKinds \cup RaiseKinds
    ELSE {"error"} \cup RaiseKinds

\* browser.close(): the browser process of the worker ends (page.close()
\* closes a page of it and ends no process).
CloseBrowser(open, w, browser) == open \ {<<w, browser>>}

\* The task's finally block: "if page: page.close()", "if browser:
\* browser.close()", each in its own try.
Cleanup(open, w, browser) ==
    IF browser # None THEN CloseBrowser(open, w, browser) ELSE open

\* A restart that creates the new browser without closing the old one.
CloseForRestart_Skip(open, w, browser) == open

\* The restart branch before the new browser is created: "if page: await
\* page.close()", "if browser: await browser.close()".
CloseForRestart(open, w, browser) ==
    IF browser # None THEN CloseBrowser(open, w, browser) ELSE open

\* ------------------------------------------- fingerprint and proxy pools
LenUSER_AGENTS == 67
LenVIEWPORTS == 30

\* LOCALES: (locale, timezone) pairs.
LOCALES ==
    << <<"en-US", "America/New_York">>, <<"en-US", "America/Los_Angeles">>,
       <<"en-US", "America/Chicago">>, <<"en-US", "America/Denver">>,
       <<"en-US", "America/Phoenix">>, <<"en-GB", "Europe/London">>,
       <<"en-GB", "Europe/Dublin">>, <<"en-GB", "Europe/Berlin">>,
       <<"en-GB", "Europe/Paris">>, <<"en-GB", "Europe/Madrid">>,
       <<"en-IN", "Asia/Kolkata">>, <<"en-AU", "Australia/Sydney">>,
       <<"en-AU", "Australia/Melbourne">>, <<"en-SG", "Asia/Singapore">>,
       <<"en-IN", "Asia/Dubai">>, <<"en-CA", "America/Toronto">>,
       <<"en-NZ", "Pacific/Auckland">> >>

\* USER_AGENTS and VIEWPORTS hold distinct entries: an entry is named by its
\* position in the list as written in the source (from 0).
\* random.shuffle(USER_AGENTS) leaves the list in any order; the orders
\* explored are the rotations by 0 .. MaxShift places.  The entry at
\* position p of the list rotated by shift:
ShuffledUserAgent(shift, p) == (p + shift) % LenUSER_AGENTS

\* The deployments set up side by side (one process each).
Deployments == {1, 2}

\* EC2_INSTANCE_ID values explored: with them a global index passes the
\* end of the locale pool (8 * 2 + 1 = 17) and of the viewport pool.
InstanceIds == {0, 1, 8, 15}

\* Configured proxy lists: the proxies 1 .. MaxProxies, each at most once.
ProxyLists ==
    { l \in UNION { [1 .. n -> 1 .. MaxProxies] : n \in 0 .. MaxProxies } :
        \A i, j \in 1 .. Len(l) : i # j => l[i] # l[j] }

\* "ec2_offset + i" with "ec2_offset = ec2_instance_id * num_browsers" for a
\* worker that is given the index of another deployment's range start.
global_index_NoOffset(dep, i) == i

\* "global_index = ec2_offset + i", "ec2_offset = ec2_instance_id * num_browsers"
global_index(dep, i) == dep.ec2_instance_id * dep.num_browsers + i

\* A proxy taken from the configured list, validated or not.
AssignProxy_Unvalidated(working_proxies, g) ==
    IF PROXY_LIST # <<>>
    THEN PROXY_LIST[(g % Len(PROXY_LIST)) + 1]
    ELSE None

\* "proxy = None; if working_proxies: proxy_url = working_proxies[
\* global_index % len(working_proxies)]"
AssignProxy(working_proxies, g) ==
    IF working_proxies # <<>>
    THEN working_proxies[(g % Len(working_proxies)) + 1]
    ELSE None

\* BrowserWorker(worker_id=i, user_agent=USER_AGENTS[g % len], ...)
BrowserWorker(dep, i, shift) ==
    LET g == global_index(dep, i) IN
    [worker_id |-> i,
     user_agent |-> ShuffledUserAgent(shift, g % LenUSER_AGENTS),
     viewport |-> g % LenVIEWPORTS,
     locale |-> LOCALES[(g % Len(LOCALES)) + 1][1],
     timezone |-> LOCALES[(g % Len(LOCALES)) + 1][2],
     proxy |-> AssignProxy(dep.working_proxies, g)]

\* Launch arguments that name a proxy whatever the worker holds.
launch_kwargs_AlwaysProxy(worker) == {"headless", "args", "proxy"}

\* create_browser_with_fingerprint: "if worker.proxy: launch_kwargs["proxy"]
\* = worker.proxy"
launch_kwargs(worker) ==
    IF worker.proxy # None
    THEN {"headless", "args", "proxy"}
    ELSE {"headless", "args"}

\* What one test_proxy call can meet: the launch fails; the page loads and
\* its content holds "origin" or not; or a step after the launch raises
\* (navigation error, timeout).
ProbeOutcomes == {"launch_fail", "origin", "no_origin", "raise"}

\* test_proxy returns True only from inside "if "origin" in content".
test_proxy(outcome) == outcome = "origin"

\* "await browser.close()" is reached after page.content() returned.
ProbeCloses(outcome) == outcome \in {"origin", "no_origin"}

\* A validation that keeps every probed proxy.
KeepWorking_Any(working, proxy_url, ok) == Append(working, proxy_url)

\* "if await test_proxy(playwright, proxy_url): working.append(proxy_url)"
KeepWorking(working, proxy_url, ok) ==
    IF ok THEN Append(working, proxy_url) ELSE working

NoDeployment ==
    [pc |-> "absent", ec2_instance_id |-> 0, num_browsers |-> 1,
     validate_proxies_first |-> FALSE, i |-> 0, working_proxies |-> <<>>,
     probes_open |-> {}, probe_ok |-> {}, probed |-> <<>>, workers |-> <<>>]

SetupIdle ==
    /\ PROXY_LIST = <<>>
    /\ deploy = [d \in Deployments |-> NoDeployment]

\* The BrowserWorker the task of worker w was given: entry w of the workers
\* list of the run's deployment.  The runs explored without their setup
\* have no such list, and their workers' fields are left unset.
UnsetWorker(w) ==
    [worker_id |-> w, user_agent |-> -1, viewport |-> -1, locale |-> "",
     timezone |-> "", proxy |-> None]

worker_of(w) ==
    IF w + 1 \in DOMAIN deploy[1].workers
    THEN deploy[1].workers[w + 1]
    ELSE UnsetWorker(w)

\* create_browser_with_fingerprint: what the browser and its context are
\* created with, "new_context(user_agent=worker.user_agent, viewport=
\* worker.viewport, locale=worker.locale, timezone_id=worker.timezone)" and
\* the launch's proxy (the geolocation is drawn anew for every context and
\* is left out).
ContextOptions(worker) ==
    [user_agent |-> worker.user_agent, viewport |-> worker.viewport,
     locale |-> worker.locale, timezone_id |-> worker.timezone,
     proxy |-> IF "proxy" \in launch_kwargs(worker)
               THEN worker.proxy
               ELSE None]

NoContext == ContextOptions(UnsetWorker(0))

\* A restart that takes the next user agent of the pool.
RestartContext_NewAgent(w) ==
    [ContextOptions(worker_of(w)) EXCEPT
        !.user_agent = (@ + 1) % LenUSER_AGENTS]

\* The restart branch: "browser, page = await
\* create_browser_with_fingerprint(playwright, worker, headless)" with the
\* task's own worker.
RestartContext(w) == ContextOptions(worker_of(w))

\* ------------------------------------------------------------ the worker
NewWorker(present) ==
    [pc |-> IF present THEN "starting" ELSE "absent",
     hotel |-> None, day_offset |-> 0, attempt |-> 0, waits |-> <<>>,
     consecutive_errors |-> 0, hotel_rooms |-> <<>>,
     hotels_processed |-> 0, rooms_scraped |-> 0, errors |-> 0,
     is_busy |-> FALSE, browser |-> None, page |-> None,
     context |-> NoContext]

\* The run's own variables before multi_browser_scrape has started, for a
\* run whose arguments are drawn from cfgs.
RunInit(cfgs) ==
    /\ config \in cfgs
    /\ opc = "start"
    /\ mpc = "absent"
    /\ hotel_queue = <<>>
    /\ unfinished = 0
    /\ csv_header = <<>>
    /\ csv_rows = <<>>
    /\ rows_written = 0
    /\ results = <<>>
    /\ wk = [w \in Workers |-> NewWorker(FALSE)]
    /\ open_browsers = {}
    /\ launched = [w \in Workers |-> 0]
    /\ acquired = {}
    /\ dequeued = [h \in Hotels \cup (1 .. config.hotels) |-> <<>>]
    /\ task_done_calls = [h \in Hotels \cup (1 .. config.hotels) |-> 0]
    /\ attempted = {}
    /\ last_scrape = [w \in Workers |-> NoScrape]
    /\ restarts = [w \in Workers |-> 0]
    /\ fail_streak = [w \in Workers |-> 0]
    /\ due = [w \in Workers |-> 0]

\* The run as shipped: PROXY_LIST is empty, so no proxy is validated.
Init ==
    /\ RunInit(Configs)
    /\ SinkIdle
    /\ SetupIdle

\* multi_browser_scrape up to "async with async_playwright()":
\* "csv_writer = ThreadSafeCSVWriter(output_file, csv_headers)" creates the
\* sink file with its header and sets rows_written to 0.
CreateSink ==
    /\ opc = "start"
    /\ opc' = "sink_ready"
    /\ LET file == init_csv(csv_headers) IN
       /\ csv_header' = file.header
       /\ csv_rows' = file.rows
    /\ rows_written' = 0
    /\ UNCHANGED <<aside, config, mpc, hotel_queue, unfinished, results, wk,
                   sessions, ghosts>>

\* multi_browser_scrape from the playwright block's entry up to its "await
\* hotel_queue.join()": every hotel is put on the queue, one task per
\* worker and the monitor task are created.
StartRun ==
    /\ opc = "sink_ready"
    /\ opc' = "join"
    /\ mpc' = "running"
    /\ hotel_queue' = [i \in 1 .. config.hotels |-> i]
    /\ unfinished' = config.hotels
    /\ wk' = [w \in Workers |-> NewWorker(w < config.num_browsers)]
    /\ UNCHANGED <<aside, config, csv_header, csv_rows, rows_written, results,
                   sessions, ghosts>>

\* "except Exception" catches every exception but a cancellation
\* (asyncio.CancelledError derives from BaseException).
CaughtByExceptException(exc) == exc # "CancelledError"

\* The worker's outer handlers: "except Exception" logs the crash, the
\* finally block closes page and browser; what is not caught leaves the task.
WorkerExit(r, exc) ==
    [r EXCEPT !.pc = IF exc = "none" \/ CaughtByExceptException(exc)
                     THEN "ended"
                     ELSE IF exc = "CancelledError" THEN "cancelled"
                     ELSE "raised",
              !.is_busy = FALSE, !.hotel = None, !.day_offset = 0,
              !.attempt = 0, !.waits = <<>>, !.consecutive_errors = 0,
              !.hotel_rooms = <<>>]

\* The counter update after a date whose scrape_with_retry returned.
CountErrors(consecutive_errors, rooms) ==
    IF rooms # <<>> /\ rooms[1].room_type # "Error"
    THEN 0
    ELSE consecutive_errors + 1

\* "if consecutive_errors >= 5"
NeedsRestart(consecutive_errors) == consecutive_errors >= Threshold

\* "if worker.hotels_processed > 0 and worker.hotels_processed % 10 == 0"
TakesSessionBreak(hotels_processed) ==
    hotels_processed > 0 /\ hotels_processed % SessionBreakEvery = 0

\* A backoff that waits retry_delay before every retry.
wait_time_Constant(attempt) == retry_delay

\* "wait_time = retry_delay * (attempt + 1)", attempt counted from 0
wait_time(attempt) == retry_delay * (attempt + 1)

\* A wrapper that retries once more than max_retries allows.
RetriesAgain_OneMore(kind, attempt) ==
    retryable(kind) /\ attempt < max_retries

\* "if retryable and attempt < max_retries - 1"
RetriesAgain(kind, attempt) == retryable(kind) /\ attempt < max_retries - 1

\* The failed date outcomes in a row of one worker, whatever the hotel: an
\* "Error" placeholder or an exception adds one, rows of real rooms or of
\* "No Rooms Found" end the run of failures.
StreakAfter(w, failed) ==
    IF failed THEN (fail_streak[w] + 1) % Threshold ELSE 0

DueAfter(w, failed) ==
    IF failed /\ fail_streak[w] + 1 = Threshold THEN due[w] + 1 ELSE due[w]

\* A store that keeps the last hotel's records only.
StoreResults_Replace(all, hotel_rooms) == hotel_rooms

\* "async with results_lock: results.extend(hotel_rooms)"
StoreResults(all, hotel_rooms) == all \o hotel_rooms

\* A date loop that goes on two dates further.
NextIter_SkipsDate(w, r) ==
    IF r.day_offset + 1 < config.days_ahead
    THEN /\ wk' = [wk EXCEPT ![w] = [r EXCEPT !.day_offset = @ + 2,
                                              !.attempt = 0, !.waits = <<>>,
                                              !.pc = "scrape"]]
         /\ results' = results
    ELSE /\ wk' = [wk EXCEPT ![w] =
                [r EXCEPT !.hotels_processed = @ + 1,
                          !.rooms_scraped = @ + Len(r.hotel_rooms),
                          !.pc = IF TakesSessionBreak(r.hotels_processed + 1)
                                 THEN "session_break"
                                 ELSE "hotel_delay"]]
         /\ results' = StoreResults(results, r.hotel_rooms)

\* The top of the date loop after date r.day_offset: the next date starts, or
\* the loop is over and the hotel's statistics and records are stored.
NextIter(w, r) ==
    IF r.day_offset + 1 < config.days_ahead
    THEN /\ wk' = [wk EXCEPT ![w] = [r EXCEPT !.day_offset = @ + 1,
                                              !.attempt = 0, !.waits = <<>>,
                                              !.pc = "scrape"]]
         /\ results' = results
    ELSE /\ wk' = [wk EXCEPT ![w] =
                [r EXCEPT !.hotels_processed = @ + 1,
                          !.rooms_scraped = @ + Len(r.hotel_rooms),
                          !.pc = IF TakesSessionBreak(r.hotels_processed + 1)
                                 THEN "session_break"
                                 ELSE "hotel_delay"]]
         /\ results' = StoreResults(results, r.hotel_rooms)

\* "if day_offset < config.days_ahead - 1: await random_delay(...)"
AfterDate(w, r) ==
    IF r.day_offset < config.days_ahead - 1
    THEN /\ wk' = [wk EXCEPT ![w] = [r EXCEPT !.pc = "date_delay"]]
         /\ results' = results
    ELSE NextIter(w, r)

\* The date's try block after scrape_with_retry returned rooms.
DateReturned(w, r, rooms) ==
    LET r1 == [r EXCEPT !.hotel_rooms = @ \o rooms,
                        !.consecutive_errors = CountErrors(@, rooms)]
        sink == append_rows(Sink, CsvRows(rooms))
    IN  /\ csv_rows' = sink.rows
        /\ rows_written' = sink.written
        /\ IF NeedsRestart(r1.consecutive_errors)
           THEN /\ wk' = [wk EXCEPT ![w] = [r1 EXCEPT !.pc = "restart"]]
                /\ restarts' = [restarts EXCEPT ![w] = @ + 1]
                /\ results' = results
           ELSE /\ AfterDate(w, r1)
                /\ restarts' = restarts

\* The date's "except Exception" handler.
DateRaised(w, r) ==
    NextIter(w, [r EXCEPT !.errors = @ + 1, !.consecutive_errors = @ + 1])

\* scrape_with_retry after its loop: the "Error" placeholder is built and
\* returned, unless building it raises.
AfterRetries(w, r, calls, cause) ==
    IF RoomDataInit(ErrorPlaceholderKwargs) = "ok"
    THEN /\ DateReturned(w, r,
                <<RoomData(r.hotel, r.day_offset, "Error", FALSE)>>)
         /\ last_scrape' = [last_scrape EXCEPT ![w] =
                ScrapeEnded(r, calls, cause, "placeholder", "error")]
    ELSE /\ DateRaised(w, r)
         /\ last_scrape' = [last_scrape EXCEPT ![w] =
                ScrapeEnded(r, calls, cause, "raised", "raised")]
         /\ UNCHANGED <<csv_rows, rows_written, restarts>>

\* ---------------------------------------------------------- worker steps
\* browser_worker_task up to its first dequeue: the browser is created, or
\* the failure is logged and the task ends.
Launch(w, outcome) ==
    /\ wk[w].pc = "starting"
    /\ outcome \in CreateOutcomes
    /\ LET k == launched[w] + 1 IN
       CASE outcome = "ok" ->
              /\ wk' = [wk EXCEPT ![w] =
                     [@ EXCEPT !.pc = "idle",
                               !.browser = k,
                               !.page = k,
                               !.context = ContextOptions(worker_of(w))]]
              /\ open_browsers' = open_browsers \cup {<<w, k>>}
              /\ launched' = [launched EXCEPT ![w] = k]
              /\ acquired' = acquired \cup {<<w, k>>}
         [] outcome = "context_fail" ->
              /\ wk' = [wk EXCEPT ![w] = WorkerExit(@, "Error")]
              /\ open_browsers' = open_browsers \cup {<<w, k>>}
              /\ launched' = [launched EXCEPT ![w] = k]
              /\ acquired' = acquired
         [] outcome = "launch_fail" ->
              /\ wk' = [wk EXCEPT ![w] = WorkerExit(@, "Error")]
              /\ UNCHANGED sessions
    /\ UNCHANGED <<aside, config, csv_header, opc, mpc, shared, ghosts>>

\* A worker that starts on its item without raising its busy flag.
Dequeue_NotBusy(w) ==
    /\ wk[w].pc = "idle"
    /\ hotel_queue # <<>>
    /\ LET got == QueueGet(hotel_queue) IN
       /\ hotel_queue' = got.rest
       /\ wk' = [wk EXCEPT ![w] = [@ EXCEPT !.pc = "scrape",
                                            !.hotel = got.item,
                                            !.hotel_rooms = <<>>,
                                            !.consecutive_errors = 0,
                                            !.day_offset = 0,
                                            !.attempt = 0, !.waits = <<>>]]
       /\ dequeued' = [dequeued EXCEPT ![got.item] = Append(@, w)]
    /\ UNCHANGED <<aside, config, csv_header, opc, mpc, unfinished, csv_rows,
                   rows_written, results, sessions, task_done_calls, attempted,
                   last_scrape, restarts, fail_streak, due>>

\* hotel_queue.get() returns an item: the worker is busy and the first
\* date's extraction starts.
Dequeue(w) ==
    /\ wk[w].pc = "idle"
    /\ hotel_queue # <<>>
    /\ LET got == QueueGet(hotel_queue) IN
       /\ hotel_queue' = got.rest
       /\ wk' = [wk EXCEPT ![w] = [@ EXCEPT !.pc = "scrape",
                                            !.hotel = got.item,
                                            !.is_busy = TRUE,
                                            !.hotel_rooms = <<>>,
                                            !.consecutive_errors = 0,
                                            !.day_offset = 0,
                                            !.attempt = 0, !.waits = <<>>]]
       /\ dequeued' = [dequeued EXCEPT ![got.item] = Append(@, w)]
    /\ UNCHANGED <<aside, config, csv_header, opc, mpc, unfinished, csv_rows,
                   rows_written, results, sessions, task_done_calls, attempted,
                   last_scrape, restarts, fail_streak, due>>

\* A worker that leaves its loop at the first timeout, whatever the queue
\* holds.
DequeueTimeout_LeavesAnyway(w) ==
    /\ wk[w].pc = "idle"
    /\ wk' = [wk EXCEPT ![w] = WorkerExit(@, "none")]
    /\ open_browsers' = Cleanup(open_browsers, w, wk[w].browser)
    /\ UNCHANGED <<aside, config, csv_header, opc, mpc, shared, launched,
                   acquired, ghosts>>

\* wait_for(hotel_queue.get(), timeout=10.0) times out: the worker leaves
\* its loop if the queue is empty, and closes its page and browser.
DequeueTimeout(w) ==
    /\ wk[w].pc = "idle"
    /\ hotel_queue = <<>>
    /\ IF hotel_queue = <<>>
       THEN /\ wk' = [wk EXCEPT ![w] = WorkerExit(@, "none")]
            /\ open_browsers' =
                   Cleanup(open_browsers, w, wk[w].browser)
       ELSE UNCHANGED <<wk, open_browsers>>
    /\ UNCHANGED <<aside, config, csv_header, opc, mpc, shared, launched,
                   acquired, ghosts>>

\* scrape_with_retry goes on after one call of scrape_hotel_rooms ended as
\* kind, and the worker runs on to its next await.
ExtractionEnds(w, kind) ==
    LET r == wk[w]
        calls == r.attempt + 1
    IN
    IF kind \notin RaiseKinds
    THEN /\ DateReturned(w, r, ExtractorReturn(kind, r.hotel, r.day_offset))
         /\ last_scrape' = [last_scrape EXCEPT ![w] =
                ScrapeEnded(r, calls, "none", "returned", kind)]
         /\ attempted' = attempted \cup {<<r.hotel, r.day_offset>>}
         /\ fail_streak' = [fail_streak EXCEPT ![w] =
                                StreakAfter(w, kind = "error")]
         /\ due' = [due EXCEPT ![w] = DueAfter(w, kind = "error")]
    ELSE IF RetriesAgain(kind, r.attempt)
    THEN /\ wk' = [wk EXCEPT ![w] =
                [r EXCEPT !.pc = "retry_wait",
                          !.waits = Append(@, wait_time(r.attempt))]]
         /\ last_scrape' = ClearScrape(w)
         /\ UNCHANGED <<csv_rows, rows_written, results, attempted,
                        restarts, fail_streak, due>>
    ELSE /\ AfterRetries(w, r, calls,
                 IF retryable(kind) THEN "exhausted" ELSE "terminal")
         /\ attempted' = attempted \cup {<<r.hotel, r.day_offset>>}
         /\ fail_streak' = [fail_streak EXCEPT ![w] = StreakAfter(w, TRUE)]
         /\ due' = [due EXCEPT ![w] = DueAfter(w, TRUE)]

\* One call of scrape_hotel_rooms inside scrape_with_retry ends.
Attempt(w, kind) ==
    /\ wk[w].pc = "scrape"
    /\ kind \in ExtractOutcomes(w)
    /\ ExtractionEnds(w, kind)
    /\ UNCHANGED <<aside, config, csv_header, opc, mpc, hotel_queue,
                   unfinished, sessions, dequeued, task_done_calls>>

\* The backoff sleep of scrape_with_retry is over: the next attempt starts.
RetryWake(w) ==
    /\ wk[w].pc = "retry_wait"
    /\ wk' = [wk EXCEPT ![w] = [@ EXCEPT !.attempt = @ + 1, !.pc = "scrape"]]
    /\ last_scrape' = ClearScrape(w)
    /\ UNCHANGED <<aside, config, csv_header, opc, mpc, shared, sessions,
                   ghosts_but_scrape>>

\* The restart branch: page and browser are closed and a new browser is
\* created; a failure of any of these is handled as the date's exception.
RestartOutcomes == {"page_close_fail"} \cup CreateOutcomes

Restart(w, outcome) ==
    /\ wk[w].pc = "restart"
    /\ outcome \in RestartOutcomes
    /\ LET r == wk[w]
           k == launched[w] + 1
           closed == CloseForRestart(open_browsers, w, r.browser)
       IN
       CASE outcome = "ok" ->
              /\ wk' = [wk EXCEPT ![w] =
                     [r EXCEPT !.browser = k,
                               !.page = k,
                               !.context = RestartContext(w),
                               !.consecutive_errors = 0,
                               !.pc = "restart_sleep"]]
              /\ open_browsers' = closed \cup {<<w, k>>}
              /\ launched' = [launched EXCEPT ![w] = k]
              /\ acquired' = acquired \cup {<<w, k>>}
              /\ results' = results
         [] outcome = "page_close_fail" ->
              /\ DateRaised(w, r)
              /\ UNCHANGED sessions
         [] outcome = "launch_fail" ->
              /\ DateRaised(w, r)
              /\ open_browsers' = closed
              /\ UNCHANGED <<launched, acquired>>
         [] outcome = "context_fail" ->
              /\ DateRaised(w, r)
              /\ open_browsers' = closed \cup {<<w, k>>}
              /\ launched' = [launched EXCEPT ![w] = k]
              /\ acquired' = acquired
    /\ last_scrape' = ClearScrape(w)
    /\ UNCHANGED <<aside, config, csv_header, opc, mpc, hotel_queue,
                   unfinished, csv_rows, rows_written, ghosts_but_scrape>>

\* "await asyncio.sleep(3)" after a restart is over.
RestartSleepDone(w) ==
    /\ wk[w].pc = "restart_sleep"
    /\ AfterDate(w, wk[w])
    /\ last_scrape' = ClearScrape(w)
    /\ UNCHANGED <<aside, config, csv_header, opc, mpc, hotel_queue,
                   unfinished, csv_rows, rows_written, sessions,
                   ghosts_but_scrape>>

\* The delay between two dates is over.
DateDelayDone(w) ==
    /\ wk[w].pc = "date_delay"
    /\ NextIter(w, wk[w])
    /\ last_scrape' = ClearScrape(w)
    /\ UNCHANGED <<aside, config, csv_header, opc, mpc, hotel_queue,
                   unfinished, csv_rows, rows_written, sessions,
                   ghosts_but_scrape>>

\* A worker that calls task_done() at the end of its try block instead of
\* in the finally block: a hotel with a failed date is never marked done.
Finally_SkipOnError(w, r) ==
    /\ wk' = [wk EXCEPT ![w] = [r EXCEPT !.is_busy = FALSE,
                                         !.pc = "idle",
                                         !.hotel = None,
                                         !.day_offset = 0,
                                         !.attempt = 0, !.waits = <<>>,
                                         !.consecutive_errors = 0,
                                         !.hotel_rooms = <<>>]]
    /\ unfinished' = IF r.errors > 0 THEN unfinished ELSE unfinished - 1
    /\ task_done_calls' =
           IF r.errors > 0
           THEN task_done_calls
           ELSE [task_done_calls EXCEPT ![r.hotel] = @ + 1]

\* The hotel's finally block: the worker is idle again and the item is
\* marked done.
Finally(w, r) ==
    /\ wk' = [wk EXCEPT ![w] = [r EXCEPT !.is_busy = FALSE,
                                         !.pc = "idle",
                                         !.hotel = None,
                                         !.day_offset = 0,
                                         !.attempt = 0, !.waits = <<>>,
                                         !.consecutive_errors = 0,
                                         !.hotel_rooms = <<>>]]
    /\ unfinished' = TaskDone(unfinished)
    /\ task_done_calls' = [task_done_calls EXCEPT ![r.hotel] = @ + 1]

\* A pacing wait after the hotel is over: the session break is followed by
\* the delay between hotels, and that delay by the finally block.
HotelPacingDone(w) ==
    /\ wk[w].pc \in {"session_break", "hotel_delay"}
    /\ IF wk[w].pc = "session_break"
       THEN /\ wk' = [wk EXCEPT ![w] = [@ EXCEPT !.pc = "hotel_delay"]]
            /\ UNCHANGED <<unfinished, task_done_calls>>
       ELSE Finally(w, wk[w])
    /\ last_scrape' = ClearScrape(w)
    /\ UNCHANGED <<aside, config, csv_header, opc, mpc, hotel_queue, csv_rows,
                   rows_written, results, sessions, dequeued, attempted,
                   restarts, fail_streak, due>>

\* A task cancelled at its await: CancelledError passes the handlers for
\* Exception, the hotel's finally block runs if the worker holds an item,
\* then the task's finally block.
Cancelled(r) ==
    IF r.pc \in {"absent", "ended", "cancelled", "raised"}
    THEN r
    ELSE WorkerExit(r, "CancelledError")

HoldsItem(r) ==
    r.pc \in {"scrape", "retry_wait", "restart", "restart_sleep",
              "date_delay", "session_break", "hotel_delay"}

\* ------------------------------------------------- orchestrator, monitor
\* A monitor that marks every worker idle when it wakes up.
MonitorStep_ClearsBusy ==
    /\ mpc = "running"
    /\ mpc' = IF hotel_queue # <<>> \/ \E w \in Workers : wk[w].is_busy
              THEN "running"
              ELSE "ended"
    /\ wk' = [w \in Workers |-> [wk[w] EXCEPT !.is_busy = FALSE]]
    /\ UNCHANGED <<aside, config, csv_header, opc, shared, sessions, ghosts>>

\* monitor_progress wakes up: it logs and sleeps again while the queue
\* holds an item or a worker is busy, else it ends.
MonitorStep ==
    /\ mpc = "running"
    /\ mpc' = IF hotel_queue # <<>> \/ \E w \in Workers : wk[w].is_busy
              THEN "running"
              ELSE "ended"
    /\ UNCHANGED <<aside, config, csv_header, opc, shared, wk, sessions,
                   ghosts>>

\* "await hotel_queue.join()" returns; the monitor is cancelled.
JoinDone ==
    /\ opc = "join"
    /\ JoinReturns(unfinished)
    /\ opc' = "gather"
    /\ mpc' = IF mpc = "running" THEN "cancelled" ELSE mpc
    /\ UNCHANGED <<aside, config, csv_header, shared, wk, sessions, ghosts>>

\* An orchestrator that returns without waiting for its worker tasks.
GatherDone_NoWait ==
    /\ opc = "gather"
    /\ opc' = "returned"
    /\ open_browsers' = {}
    /\ UNCHANGED <<aside, config, csv_header, mpc, shared, wk, launched,
                   acquired, ghosts>>

\* "await asyncio.gather(*worker_tasks)" returns, the playwright block is
\* left (every browser of the driver dies) and the results are returned.
GatherDone ==
    /\ opc = "gather"
    /\ \A w \in Workers : wk[w].pc \in {"absent", "ended", "raised"}
    /\ opc' = "returned"
    /\ open_browsers' = {}
    /\ UNCHANGED <<aside, config, csv_header, mpc, shared, wk, launched,
                   acquired, ghosts>>

\* "return results": what multi_browser_scrape hands to its caller (the
\* per-browser statistics are written to the log).
ReturnValue == results

\* The run is interrupted (SIGINT) while multi_browser_scrape waits, under an
\* asyncio.run that cancels the main task first (Python 3.11 and later):
\* the main task leaves its wait and starts to leave the playwright block,
\* which awaits the driver's stop; the other tasks run on meanwhile.
Interrupt ==
    /\ opc \in {"join", "gather"}
    /\ opc' = "unwinding"
    /\ UNCHANGED <<aside, config, csv_header, mpc, shared, wk, sessions,
                   ghosts>>

\* A cancellation that ends every task where it stands, no finally block of
\* a worker being run: the items held stay unfinished.
CancelRun_NoFinally ==
    /\ opc \in {"join", "gather", "unwinding"}
    /\ opc' = "cancelled"
    /\ mpc' = IF mpc = "running" THEN "cancelled" ELSE mpc
    /\ open_browsers' = {}
    /\ wk' = [w \in Workers |-> Cancelled(wk[w])]
    /\ UNCHANGED <<aside, config, csv_header, hotel_queue, unfinished,
                   csv_rows, rows_written, results, launched, acquired,
                   ghosts>>

\* The run's tasks are cancelled: at the interrupt itself (asyncio.run up to
\* Python 3.10 cancels every task at once) or when the main task has left
\* the playwright block.  Every browser of the driver dies and every task
\* still running is cancelled at its current await.
CancelRun ==
    /\ opc \in {"join", "gather", "unwinding"}
    /\ opc' = "cancelled"
    /\ mpc' = IF mpc = "running" THEN "cancelled" ELSE mpc
    /\ open_browsers' = {}
    /\ LET held == {w \in Workers : HoldsItem(wk[w])} IN
       /\ wk' = [w \in Workers |-> Cancelled(wk[w])]
       /\ unfinished' = unfinished - Cardinality(held)
       /\ task_done_calls' =
              [h \in DOMAIN task_done_calls |->
                  task_done_calls[h]
                    + Cardinality({w \in held : wk[w].hotel = h})]
    /\ UNCHANGED <<aside, config, csv_header, hotel_queue, csv_rows,
                   rows_written, results, launched, acquired, dequeued,
                   attempted, last_scrape, restarts, fail_streak, due>>

\* The main task, once cancelled, gets out of the playwright block.
Unwound == opc = "unwinding" /\ CancelRun

WorkerStep(w) ==
    \/ \E outcome \in {"ok", "launch_fail", "context_fail"} : Launch(w, outcome)
    \/ Dequeue(w)
    \/ DequeueTimeout(w)
    \/ \E kind \in ReturnKinds \cup RaiseKinds : Attempt(w, kind)
    \/ RetryWake(w)
    \/ \E outcome \in {"ok", "page_close_fail", "launch_fail", "context_fail"} :
           Restart(w, outcome)
    \/ RestartSleepDone(w)
    \/ DateDelayDone(w)
    \/ HotelPacingDone(w)

Next ==
    \/ CreateSink
    \/ StartRun
    \/ \E w \in Workers : WorkerStep(w)
    \/ MonitorStep
    \/ JoinDone
    \/ GatherDone
    \/ Interrupt
    \/ CancelRun

Spec == Init /\ [][Next]_vars

\* The code's scheduling: the event loop runs every task that can run, and
\* every await of a worker (a browser call, a sleep, a queue get with a
\* timeout) ends, and so does the driver's stop.  An interruption of the run
\* is never forced.
FairSpec ==
    /\ Spec
    /\ WF_vars(CreateSink)
    /\ WF_vars(StartRun)
    /\ \A w \in Workers : WF_vars(WorkerStep(w))
    /\ WF_vars(MonitorStep)
    /\ WF_vars(JoinDone)
    /\ WF_vars(GatherDone)
    /\ WF_vars(Unwound)

\* ------------------------------------- append_rows from several threads
\* The run's variables the sink's threads and the setup leave alone.
run_but_sink ==
    <<config, opc, mpc, hotel_queue, unfinished, csv_header, results, wk,
      open_browsers, launched, acquired, dequeued, task_done_calls, attempted,
      last_scrape, restarts, fail_streak, due>>

SinkInit ==
    /\ RunInit({[hotels |-> 1, num_browsers |-> 1, days_ahead |-> 1]})
    /\ SetupIdle
    /\ lock = {}
    /\ \E m \in [Writers -> 0 .. MaxRows] :
          writers = [t \in Writers |->
                        [pc |-> "calling", rows |-> WriterRows(t, m[t]),
                         next |-> 1]]

\* append_rows is entered: "if not rows: return", else the lock is taken
\* (the thread waits while another thread holds it) and the file is opened.
SinkEnter(t) ==
    /\ writers[t].pc = "calling"
    /\ IF writers[t].rows = <<>>
       THEN /\ writers' = [writers EXCEPT ![t].pc = "done"]
            /\ lock' = lock
       ELSE /\ CanAcquire(lock)
            /\ lock' = lock \cup {t}
            /\ writers' = [writers EXCEPT ![t].pc = "writing"]
    /\ UNCHANGED <<csv_rows, rows_written, PROXY_LIST, deploy, run_but_sink>>

\* writer.writerows(rows): the next row of the call reaches the file.
SinkWriteRow(t) ==
    /\ writers[t].pc = "writing"
    /\ writers[t].next <= Len(writers[t].rows)
    /\ csv_rows' = WriteRow(csv_rows, writers[t].rows[writers[t].next])
    /\ writers' = [writers EXCEPT ![t].next = @ + 1]
    /\ UNCHANGED <<lock, rows_written, PROXY_LIST, deploy, run_but_sink>>

\* The file is closed, "self.rows_written += len(rows)", the lock is
\* released.
SinkLeave(t) ==
    /\ writers[t].pc = "writing"
    /\ writers[t].next > Len(writers[t].rows)
    /\ rows_written' = rows_written + Len(writers[t].rows)
    /\ lock' = lock \ {t}
    /\ writers' = [writers EXCEPT ![t].pc = "done"]
    /\ UNCHANGED <<csv_rows, PROXY_LIST, deploy, run_but_sink>>

SinkNext ==
    \E t \in Writers :
        \/ SinkEnter(t)
        \/ SinkWriteRow(t)
        \/ SinkLeave(t)

SinkSpec == SinkInit /\ [][SinkNext]_vars

\* ------------------------------ setup: proxy validation, workers' creation
\* Two deployments of the same code start; the first may validate its
\* proxies, the second takes them as configured.
SetupInit ==
    /\ RunInit({[hotels |-> 1, num_browsers |-> 1, days_ahead |-> 1]})
    /\ SinkIdle
    /\ PROXY_LIST \in ProxyLists
    /\ \E id \in [Deployments -> InstanceIds],
          n \in [Deployments -> 1 .. MaxBrowsers],
          v \in BOOLEAN :
          deploy = [d \in Deployments |->
                      [NoDeployment EXCEPT
                          !.pc = "start",
                          !.ec2_instance_id = id[d],
                          !.num_browsers = n[d],
                          !.validate_proxies_first = (d = 1 /\ v)]]

\* A loop that numbers the workers from 1.
CreateWorkers_FromOne(dep, working, shift) ==
    LET ready == [dep EXCEPT !.working_proxies = working] IN
    [ready EXCEPT
        !.pc = "done",
        !.workers = [k \in 1 .. dep.num_browsers |->
                        BrowserWorker(ready, k, shift)]]

\* "random.shuffle(USER_AGENTS)" and "for i in range(num_browsers)": the
\* workers of a deployment whose proxies are settled.
CreateWorkers(dep, working, shift) ==
    LET ready == [dep EXCEPT !.working_proxies = working] IN
    [ready EXCEPT
        !.pc = "done",
        !.workers = [k \in 1 .. dep.num_browsers |->
                        BrowserWorker(ready, k - 1, shift)]]

\* The deployment record after its code ran on with its proxies settled.
SetupDone(d, dep, working) ==
    \E shift \in 0 .. MaxShift :
        deploy' = [deploy EXCEPT ![d] = CreateWorkers(dep, working, shift)]

\* multi_browser_scrape enters the playwright block: validate_proxies
\* starts its first probe, or the proxies are taken as configured and the
\* workers are created.
EnterPlaywright(d) ==
    /\ deploy[d].pc = "start"
    /\ IF deploy[d].validate_proxies_first /\ PROXY_LIST # <<>>
       THEN deploy' = [deploy EXCEPT ![d].pc = "probe_launch", ![d].i = 1]
       ELSE SetupDone(d, deploy[d], PROXY_LIST)
    /\ UNCHANGED <<PROXY_LIST, lock, writers, csv_rows, rows_written,
                   run_but_sink>>

\* test_proxy has returned ok for proxy number dep.i: validate_proxies keeps
\* the proxy or not and probes the next one, or returns and the workers are
\* created.
ProbeReturned(d, dep, ok) ==
    LET working == KeepWorking(dep.working_proxies, PROXY_LIST[dep.i], ok)
        seen == [dep EXCEPT
                    !.probed = Append(@, PROXY_LIST[dep.i]),
                    !.probe_ok = IF ok THEN @ \cup {PROXY_LIST[dep.i]} ELSE @]
    IN  IF dep.i < Len(PROXY_LIST)
        THEN deploy' = [deploy EXCEPT ![d] =
                 [seen EXCEPT !.working_proxies = working,
                              !.i = @ + 1,
                              !.pc = "probe_launch"]]
        ELSE SetupDone(d, seen, working)

\* test_proxy: the throwaway browser is launched, or the launch raises and
\* "except Exception" makes the probe False.
ProbeLaunch(d, launch_ok) ==
    /\ deploy[d].pc = "probe_launch"
    /\ IF launch_ok
       THEN deploy' = [deploy EXCEPT ![d].pc = "probe_page",
                                     ![d].probes_open = @ \cup {deploy[d].i}]
       ELSE IF CaughtByExceptException("Error")
       THEN ProbeReturned(d, deploy[d], test_proxy("launch_fail"))
       ELSE deploy' = [deploy EXCEPT ![d].pc = "raised"]
    /\ UNCHANGED <<PROXY_LIST, lock, writers, csv_rows, rows_written,
                   run_but_sink>>

\* test_proxy after the launch: context, page, goto and content; the
\* browser is closed when content() returned, and the probe is True when
\* the content holds "origin"; an exception makes it False.
ProbeLoad(d, outcome) ==
    /\ deploy[d].pc = "probe_page"
    /\ outcome \in ProbeOutcomes \ {"launch_fail"}
    /\ LET dep == [deploy[d] EXCEPT
                      !.probes_open = IF ProbeCloses(outcome)
                                      THEN @ \ {deploy[d].i}
                                      ELSE @]
       IN  IF outcome # "raise" \/ CaughtByExceptException("Error")
           THEN ProbeReturned(d, dep, test_proxy(outcome))
           ELSE deploy' = [deploy EXCEPT ![d] = [dep EXCEPT !.pc = "raised"]]
    /\ UNCHANGED <<PROXY_LIST, lock, writers, csv_rows, rows_written,
                   run_but_sink>>

SetupNext ==
    \E d \in Deployments :
        \/ EnterPlaywright(d)
        \/ \E launch_ok \in BOOLEAN : ProbeLaunch(d, launch_ok)
        \/ \E outcome \in {"origin", "no_origin", "raise"} : ProbeLoad(d, outcome)

SetupSpec == SetupInit /\ [][SetupNext]_vars

\* ----------------------------------------------- the end-to-end scenario
\* 3 hotels (A = 1, B = 2, C = 3), 2 dates each, 2 workers, and a stub in
\* the place of scrape_hotel_rooms: one record for (A, date 1), an empty
\* result for (A, date 2), a retryable error for (B, date 1) that succeeds
\* on the second attempt, a record or an empty result for the other dates.
StubOutcomes(r) ==
    CASE r.hotel = 1 /\ r.day_offset = 0 -> {"room"}
      [] r.hotel = 1 /\ r.day_offset = 1 -> {"norooms"}
      [] r.hotel = 2 /\ r.day_offset = 0 ->
            IF r.attempt = 0 THEN {"raise_timeout"} ELSE {"room"}
      [] OTHER -> {"room", "norooms"}

ScenarioInit ==
    /\ RunInit({[hotels |-> 3, num_browsers |-> 2, days_ahead |-> 2]})
    /\ SinkIdle
    /\ SetupIdle

\* One call of the stub inside scrape_with_retry ends.
StubAttempt(w, kind) ==
    /\ wk[w].pc = "scrape"
    /\ kind \in StubOutcomes(wk[w])
    /\ ExtractionEnds(w, kind)
    /\ UNCHANGED <<aside, config, csv_header, opc, mpc, hotel_queue,
                   unfinished, sessions, dequeued, task_done_calls>>

ScenarioNext ==
    \/ CreateSink
    \/ StartRun
    \/ \E w \in Workers :
          \/ Launch(w, "ok")
          \/ Dequeue(w)
          \/ DequeueTimeout(w)
          \/ \E kind \in {"room", "norooms", "raise_timeout"} :
                StubAttempt(w, kind)
          \/ RetryWake(w)
          \/ DateDelayDone(w)
          \/ HotelPacingDone(w)
    \/ MonitorStep
    \/ JoinDone
    \/ GatherDone

ScenarioSpec == ScenarioInit /\ [][ScenarioNext]_vars

\* ------------------------------------------ a run of a set-up deployment
\* The run of one worker on one hotel over Threshold + 1 days, its worker
\* created by the setup of a deployment: with or without a proxy (taken as
\* configured), for an instance id and a shuffle.
RestartIds == {8}

RestartInit ==
    /\ RunInit({[hotels |-> 1, num_browsers |-> 1,
                 days_ahead |-> Threshold + 1]})
    /\ SinkIdle
    /\ PROXY_LIST \in {l \in ProxyLists : l \in {<<>>, <<1>>}}
    /\ \E id \in RestartIds, shift \in 0 .. MaxShift :
          deploy =
            [d \in Deployments |->
                IF d = 1
                THEN CreateWorkers(
                         [NoDeployment EXCEPT
                             !.ec2_instance_id = id,
                             !.num_browsers = config.num_browsers],
                         PROXY_LIST, shift)
                ELSE NoDeployment]

RestartSpec == RestartInit /\ [][Next]_vars

\* ------------------------------- an uninterrupted run, queue hand-over
\* "await asyncio.wait_for(hotel_queue.get(), timeout=10.0)": wait_for of
\* Python 3.11 and earlier runs hotel_queue.get() in a task of its own.  That
\* task takes the item off the queue and ends; the worker task resumes in a
\* later step of the event loop, and other tasks may run in between.
GetReturns(w) ==
    /\ wk[w].pc = "idle"
    /\ hotel_queue # <<>>
    /\ LET got == QueueGet(hotel_queue) IN
       /\ hotel_queue' = got.rest
       /\ wk' = [wk EXCEPT ![w] = [@ EXCEPT !.pc = "handover",
                                            !.hotel = got.item]]
       /\ dequeued' = [dequeued EXCEPT ![got.item] = Append(@, w)]
    /\ UNCHANGED <<aside, config, csv_header, opc, mpc, unfinished, csv_rows,
                   rows_written, results, sessions, task_done_calls, attempted,
                   last_scrape, restarts, fail_streak, due>>

\* A worker that resumes with its item without raising its busy flag.
HandOver_NotBusy(w) ==
    /\ wk[w].pc = "handover"
    /\ wk' = [wk EXCEPT ![w] = [@ EXCEPT !.pc = "scrape",
                                         !.hotel_rooms = <<>>,
                                         !.consecutive_errors = 0,
                                         !.day_offset = 0,
                                         !.attempt = 0, !.waits = <<>>]]
    /\ UNCHANGED <<aside, config, csv_header, opc, mpc, shared, sessions,
                   ghosts>>

\* The worker resumes with the item wait_for returns: "worker.is_busy =
\* True", and the first date's extraction starts.
HandOver(w) ==
    /\ wk[w].pc = "handover"
    /\ wk' = [wk EXCEPT ![w] = [@ EXCEPT !.pc = "scrape",
                                         !.is_busy = TRUE,
                                         !.hotel_rooms = <<>>,
                                         !.consecutive_errors = 0,
                                         !.day_offset = 0,
                                         !.attempt = 0, !.waits = <<>>]]
    /\ UNCHANGED <<aside, config, csv_header, opc, mpc, shared, sessions,
                   ghosts>>

\* The item a worker's get has taken and wait_for has not yet returned.
InHandOver(h) == \E w \in Workers : wk[w].pc = "handover" /\ wk[w].hotel = h

\* Dequeue is the get that returns within the worker's own step (wait_for of
\* Python 3.12 awaits the get directly).
HandOverNext ==
    \/ CreateSink
    \/ StartRun
    \/ \E w \in Workers :
          \/ WorkerStep(w)
          \/ GetReturns(w)
          \/ HandOver(w)
    \/ MonitorStep
    \/ JoinDone
    \/ GatherDone

HandOverSpec == Init /\ [][HandOverNext]_vars

\* ------------------------------------- a run that reaches a session break
\* One worker on MaxPaced hotels of two dates each.  The extraction of the
\* first hotel and of the hotel that makes hotels_processed a multiple of
\* SessionBreakEvery ends in any way; the extraction of the other hotels
\* returns rooms.
PacingInit ==
    /\ RunInit({[hotels |-> MaxPaced, num_browsers |-> 1, days_ahead |-> 2]})
    /\ SinkIdle
    /\ SetupIdle

PacingOutcomes(r) ==
    IF r.hotel \in {1, SessionBreakEvery}
    THEN ReturnKinds \cup RaiseKinds
    ELSE {"rooms"}

\* One call of scrape_hotel_rooms inside scrape_with_retry ends.
PacedAttempt(w, kind) ==
    /\ wk[w].pc = "scrape"
    /\ kind \in PacingOutcomes(wk[w]) \cap ExtractOutcomes(w)
    /\ ExtractionEnds(w, kind)
    /\ UNCHANGED <<aside, config, csv_header, opc, mpc, hotel_queue,
                   unfinished, sessions, dequeued, task_done_calls>>

PacingNext ==
    \/ CreateSink
    \/ StartRun
    \/ \E w \in Workers :
          \/ \E outcome \in {"ok", "launch_fail", "context_fail"} :
                Launch(w, outcome)
          \/ Dequeue(w)
          \/ DequeueTimeout(w)
          \/ \E kind \in ReturnKinds \cup RaiseKinds : PacedAttempt(w, kind)
          \/ RetryWake(w)
          \/ DateDelayDone(w)
          \/ HotelPacingDone(w)
    \/ MonitorStep
    \/ JoinDone
    \/ GatherDone

PacingSpec == PacingInit /\ [][PacingNext]_vars

\* ------------------------------------------- a run whose sink may fail
\* csv_writer.append_rows raises (the file cannot be opened, or a write
\* fails after n rows went to the file): rows_written is not updated, the
\* rooms are in hotel_rooms already and the counter is updated, and the
\* date's "except Exception" handler takes over.
AppendFails(w, kind, n) ==
    /\ wk[w].pc = "scrape"
    /\ kind \in ExtractOutcomes(w) \cap ReturnKinds
    /\ LET r == wk[w]
           rooms == ExtractorReturn(kind, r.hotel, r.day_offset)
           r1 == [r EXCEPT !.hotel_rooms = @ \o rooms,
                           !.consecutive_errors = CountErrors(@, rooms)]
       IN  /\ n \in 0 .. (Len(rooms) - 1)
           /\ csv_rows' = csv_rows \o SubSeq(CsvRows(rooms), 1, n)
           /\ DateRaised(w, r1)
           /\ last_scrape' = [last_scrape EXCEPT ![w] =
                  ScrapeEnded(r, r.attempt + 1, "none", "returned", kind)]
           /\ attempted' = attempted \cup {<<r.hotel, r.day_offset>>}
           /\ fail_streak' = [fail_streak EXCEPT ![w] = StreakAfter(w, TRUE)]
           /\ due' = [due EXCEPT ![w] = DueAfter(w, TRUE)]
    /\ UNCHANGED <<aside, config, csv_header, opc, mpc, hotel_queue,
                   unfinished, rows_written, sessions, dequeued,
                   task_done_calls, restarts>>

SinkFailNext ==
    \/ Next
    \/ \E w \in Workers, kind \in ReturnKinds, n \in 0 .. 1 :
          AppendFails(w, kind, n)

\* The runs of at most two workers on at most two hotels over at most two
\* dates, and the run of one worker on one hotel over three dates.
SinkFailInit ==
    /\ RunInit({c \in Configs : /\ c.hotels <= 2
                                /\ c.days_ahead <= 2
                                /\ c.num_browsers <= 2}
               \cup {[hotels |-> 1, num_browsers |-> 1, days_ahead |-> 3]})
    /\ SinkIdle
    /\ SetupIdle

SinkFailSpec == SinkFailInit /\ [][SinkFailNext]_vars

\* ------------------------------------------------------------ properties
RECURSIVE TaskDoneTotal(_)
TaskDoneTotal(n) ==
    IF n = 0 THEN 0 ELSE task_done_calls[n] + TaskDoneTotal(n - 1)

Holder(h) == {w \in Workers : HoldsItem(wk[w]) /\ wk[w].hotel = h}

Ended(w) == wk[w].pc \in {"ended", "cancelled", "raised"}

HasRow(rows, h, d) ==
    \E i \in 1 .. Len(rows) : rows[i].hotel_name = h /\ rows[i].date = d

\* The fingerprint of a worker.
Fingerprint(worker) ==
    <<worker.user_agent, worker.viewport, worker.locale, worker.timezone>>

\* The global indices [O, O + W) of a deployment.
IndexRange(dep) ==
    { dep.ec2_instance_id * dep.num_browsers + k :
        k \in 0 .. (dep.num_browsers - 1) }

\* The smallest of the three pool sizes.
MinPool ==
    IF Len(LOCALES) <= LenVIEWPORTS /\ Len(LOCALES) <= LenUSER_AGENTS
    THEN Len(LOCALES)
    ELSE IF LenVIEWPORTS <= LenUSER_AGENTS THEN LenVIEWPORTS
    ELSE LenUSER_AGENTS

WorkersOf(d) == { deploy[d].workers[k] : k \in 1 .. Len(deploy[d].workers) }

RECURSIVE SumStat(_, _)
SumStat(field, n) ==
    IF n = 0 THEN 0 ELSE wk[n - 1][field] + SumStat(field, n - 1)

SeqRange(q) == { q[i] : i \in 1 .. Len(q) }

NoDuplicates(q) == \A i, j \in 1 .. Len(q) : q[i] = q[j] => i = j

\* The pacing waits of a worker: between dates, between hotels, the session
\* break.
PacingWaits == {"date_delay", "hotel_delay", "session_break"}

IsPrefix(p, q) == Len(p) <= Len(q) /\ SubSeq(q, 1, Len(p)) = p

RECURSIVE RowsGiven(_)
RowsGiven(n) ==
    IF n = 0 THEN 0 ELSE Len(writers[n - 1].rows) + RowsGiven(n - 1)

\* C1: every dequeued item is marked done exactly once (never twice, and
\* once as soon as its worker has let go of it, whatever happened while it
\* was processed), and join() has returned only if as many items were
\* marked done as were enqueued.
C1_QueueCompletion ==
    /\ \A h \in Hotels :
          /\ task_done_calls[h] <= 1
          /\ dequeued[h] = <<>> => task_done_calls[h] = 0
          /\ dequeued[h] # <<>> =>
                task_done_calls[h] = IF Holder(h) # {} THEN 0 ELSE 1
    /\ opc \in {"gather", "returned"} =>
          TaskDoneTotal(config.hotels) = config.hotels

\* A run of two hotels or more has returned, and a date of it failed with
\* an exception.
C1_Witness ==
    /\ opc = "returned"
    /\ config.hotels >= 2
    /\ \E w \in Workers : wk[w].errors > 0

\* C2: an item is dequeued by one worker only, is never in the queue again
\* once dequeued, is held by at most one worker, and when the run has
\* returned every enqueued item was dequeued exactly once.
C2_DequeuedOnce ==
    /\ \A h \in Hotels :
          /\ Len(dequeued[h]) <= 1
          /\ Cardinality(Holder(h)) <= 1
          /\ dequeued[h] # <<>> =>
                \A i \in 1 .. Len(hotel_queue) : hotel_queue[i] # h
    /\ opc = "returned" =>
          \A h \in 1 .. config.hotels : Len(dequeued[h]) = 1

\* Two workers hold an item each at the same time.
C2_Witness ==
    \E w1, w2 \in Workers :
        /\ w1 # w2
        /\ HoldsItem(wk[w1]) /\ HoldsItem(wk[w2])
        /\ wk[w1].hotel # wk[w2].hotel

\* C3: every (hotel, date) whose date iteration has finished has a row in
\* the sink and a record in the record list of its hotel (the worker's
\* hotel_rooms, later the result list).
C3_EveryDateHasRecord ==
    opc # "cancelled" =>
        \A p \in attempted :
            /\ HasRow(csv_rows, p[1], p[2])
            /\ \/ HasRow(results, p[1], p[2])
               \/ \E w \in Holder(p[1]) : HasRow(wk[w].hotel_rooms, p[1], p[2])

\* C4: a scrape_with_retry call whose every extraction call raised a
\* retryable error made exactly max_retries calls and returned the "Error"
\* placeholder to its caller (it did not raise).
C4_RetryCeiling ==
    \A w \in Workers :
        last_scrape[w].cause = "exhausted" =>
            /\ last_scrape[w].calls = max_retries
            /\ last_scrape[w].ended = "placeholder"

\* C5: multi_browser_scrape eventually returns (or was interrupted).
C5_EventuallyReturns == <>(opc \in {"returned", "cancelled"})

\* C6: a worker has entered its restart branch once for every time its
\* failed date outcomes in a row, whatever their hotels, reached Threshold
\* (stated for the workers that met no exception: for them every failed
\* outcome is an "Error" placeholder and no restart failed).
C6_RestartPerThreshold ==
    \A w \in Workers : wk[w].errors = 0 => restarts[w] = due[w]

\* C7: a date that ended with an "Error" placeholder, an exception or a
\* "No Rooms Found" placeholder has added one to consecutive_errors, and
\* a date that returned real rooms has set it to zero.
C7_CounterUpdate ==
    \A w \in Workers :
        last_scrape[w].ended # "none" =>
            wk[w].consecutive_errors =
                IF last_scrape[w].kind = "rooms"
                THEN 0
                ELSE last_scrape[w].before + 1

\* C8: a worker whose consecutive_errors is at Threshold or above is in its
\* restart branch: with such a counter it starts no extraction and no pacing.
C8_RestartBeforeContinuing ==
    \A w \in Workers :
        wk[w].consecutive_errors >= Threshold => wk[w].pc = "restart"

\* C9: no worker task ends by an exception, and a date whose extraction
\* failed with an exception has a record in the sink unless its worker has
\* shut down (a failure ends as a retry, a record or a shutdown).
C9_FailureContained ==
    \A w \in Workers :
        /\ wk[w].pc # "raised"
        /\ last_scrape[w].cause # "none" =>
              \/ HasRow(csv_rows, last_scrape[w].hotel, last_scrape[w].day)
              \/ Ended(w)

\* C10: once a worker task has ended, no session it acquired, at startup or
\* by a restart, is open.
C10_SessionsReleased ==
    \A w \in Workers :
        Ended(w) =>
            \A s \in acquired : s[1] = w => s \notin open_browsers

\* A worker task has ended by draining the queue, having restarted its
\* session before, while the playwright driver is still up.
C10_Witness ==
    \E w \in Workers :
        /\ wk[w].pc = "ended"
        /\ restarts[w] >= 1
        /\ Cardinality({s \in acquired : s[1] = w}) >= 2
        /\ PlaywrightUp

\* C11: the rows of one append_rows call are in the sink in the order
\* given and next to each other, no row is there twice, and when every
\* thread's call is over the sink holds as many rows as were given in all
\* and rows_written is that number.
C11_SinkAtomicity ==
    /\ \A i \in 1 .. Len(csv_rows) :
          /\ csv_rows[i].date > 1 =>
                /\ i > 1
                /\ csv_rows[i - 1].hotel_name = csv_rows[i].hotel_name
                /\ csv_rows[i - 1].date = csv_rows[i].date - 1
          /\ \A j \in 1 .. Len(csv_rows) :
                csv_rows[i] = csv_rows[j] => i = j
    /\ (\A t \in Writers : writers[t].pc = "done") =>
          /\ Len(csv_rows) = RowsGiven(MaxWriters)
          /\ rows_written = RowsGiven(MaxWriters)
          /\ \A t \in Writers :
                \A k \in 1 .. Len(writers[t].rows) :
                    \E i \in 1 .. Len(csv_rows) :
                        csv_rows[i] = writers[t].rows[k]

\* Every thread's call is over, each gave MaxRows rows, and the rows of the
\* thread that entered last in the list come first in the sink.
C11_Witness ==
    /\ \A t \in Writers :
          writers[t].pc = "done" /\ Len(writers[t].rows) = MaxRows
    /\ Len(csv_rows) > 0
    /\ csv_rows[1].hotel_name = MaxWriters - 1

\* C12: two deployments whose index ranges do not overlap and end within
\* every pool have no two workers, one of each, with the same (user agent,
\* viewport, locale, timezone).
C12_NoCollision ==
    (/\ deploy[1].pc = "done" /\ deploy[2].pc = "done"
     /\ IndexRange(deploy[1]) \cap IndexRange(deploy[2]) = {}
     /\ \A g \in IndexRange(deploy[1]) \cup IndexRange(deploy[2]) :
            g < MinPool)
    => \A a \in WorkersOf(1), b \in WorkersOf(2) :
           Fingerprint(a) # Fingerprint(b)

\* Two deployments with ranges apart and within the pools have created
\* their workers, and a worker of one has the user agent of a worker of the
\* other (their shuffles differ).
C12_Witness ==
    /\ deploy[1].pc = "done" /\ deploy[2].pc = "done"
    /\ IndexRange(deploy[1]) \cap IndexRange(deploy[2]) = {}
    /\ \A g \in IndexRange(deploy[1]) \cup IndexRange(deploy[2]) : g < MinPool
    /\ deploy[1].num_browsers = MaxBrowsers
    /\ \E a \in WorkersOf(1), b \in WorkersOf(2) :
          a.user_agent = b.user_agent

\* C13: a deployment creates num_browsers workers and worker i has the
\* user agent, viewport and locale/timezone at index (offset + i) mod pool
\* size of the pools as configured; two deployments with the same instance
\* id and num_browsers give their workers the same fingerprints.
C13_Deterministic ==
    /\ \A d \in Deployments :
          deploy[d].pc = "done" =>
              /\ Len(deploy[d].workers) = deploy[d].num_browsers
              /\ \A k \in 1 .. Len(deploy[d].workers) :
                    LET g == global_index(deploy[d], k - 1)
                        w == deploy[d].workers[k]
                    IN  /\ w.worker_id = k - 1
                        /\ w.user_agent = g % LenUSER_AGENTS
                        /\ w.viewport = g % LenVIEWPORTS
                        /\ <<w.locale, w.timezone>> =
                               LOCALES[(g % Len(LOCALES)) + 1]
    /\ (/\ deploy[1].pc = "done" /\ deploy[2].pc = "done"
        /\ deploy[1].ec2_instance_id = deploy[2].ec2_instance_id
        /\ deploy[1].num_browsers = deploy[2].num_browsers)
       => \A k \in 1 .. Len(deploy[1].workers) :
              Fingerprint(deploy[1].workers[k]) =
                  Fingerprint(deploy[2].workers[k])

\* C14: with validation enabled, worker i has the proxy at index (offset +
\* i) mod len of the list validate_proxies returned, and that proxy passed
\* its probe.
C14_ValidatedProxy ==
    \A d \in Deployments :
        (deploy[d].pc = "done" /\ deploy[d].validate_proxies_first) =>
            \A k \in 1 .. Len(deploy[d].workers) :
                LET g == global_index(deploy[d], k - 1)
                    w == deploy[d].workers[k]
                    working == deploy[d].working_proxies
                IN  /\ working # <<>> =>
                          w.proxy = working[(g % Len(working)) + 1]
                    /\ w.proxy # None => w.proxy \in deploy[d].probe_ok

\* Validation is over with one proxy failed and one passed, in a deployment
\* whose offset is odd, and its workers are created.
C14_Witness ==
    \E d \in Deployments :
        /\ deploy[d].pc = "done" /\ deploy[d].validate_proxies_first
        /\ Len(PROXY_LIST) = MaxProxies
        /\ Cardinality(deploy[d].probe_ok) = MaxProxies - 1
        /\ deploy[d].ec2_instance_id = 1
        /\ Len(deploy[d].workers) = MaxBrowsers
        /\ \A k \in 1 .. Len(deploy[d].workers) :
              deploy[d].workers[k].proxy # None

\* C15: validate_proxies probes every configured proxy, returns those whose
\* probe succeeded in their configured order, and raises nothing.
C15_ValidateProxies ==
    \A d \in Deployments :
        /\ deploy[d].pc # "raised"
        /\ (deploy[d].pc = "done" /\ deploy[d].validate_proxies_first) =>
              /\ deploy[d].probed = PROXY_LIST
              /\ deploy[d].working_proxies =
                     SelectSeq(PROXY_LIST,
                               LAMBDA p : p \in deploy[d].probe_ok)

\* validate_proxies has returned the second proxy only: the first probe
\* failed (it raised after the launch), the second succeeded.
C15_Witness ==
    \E d \in Deployments :
        /\ deploy[d].pc = "done" /\ deploy[d].validate_proxies_first
        /\ Len(PROXY_LIST) >= 2
        /\ deploy[d].working_proxies = <<PROXY_LIST[2]>>
        /\ 1 \in deploy[d].probes_open

\* C16: a throwaway browser is open only while its test_proxy call runs.
C16_ProbesClosed ==
    \A d \in Deployments :
        deploy[d].probes_open \subseteq
            (IF deploy[d].pc = "probe_page" THEN {deploy[d].i} ELSE {})

C19_Scenario ==
    opc = "returned" =>
        /\ Len(csv_rows) = config.hotels * config.days_ahead
        /\ \A h \in 1 .. config.hotels, d \in 0 .. (config.days_ahead - 1) :
              Cardinality({i \in 1 .. Len(csv_rows) :
                              csv_rows[i].hotel_name = h
                              /\ csv_rows[i].date = d}) = 1
        /\ unfinished = 0
        /\ \A h \in 1 .. config.hotels : task_done_calls[h] = 1
        /\ SumStat("errors", MaxBrowsers) >= 1

\* A step taken after the run was cancelled by the interrupt: no worker
\* begins a pacing wait, the rows of the sink stay as they are (rows are
\* only added after them), and when every task is cancelled no browser
\* session is open.
QuietAfterCancel ==
    opc \in {"unwinding", "cancelled"} =>
        /\ \A w \in Workers :
              wk'[w].pc \in PacingWaits => wk'[w].pc = wk[w].pc
        /\ IsPrefix(csv_rows, csv_rows')
        /\ opc' = "cancelled" => open_browsers' = {}

\* C20: every step taken after the run was cancelled by the interrupt
\* begins no pacing wait, keeps the rows of the sink and ends with every
\* browser session released once every task is cancelled.
C20_CancelStopsPacing == [][QuietAfterCancel]_vars

\* A step of the sink's threads: rows_written does not decrease, the rows of
\* the file stay and rows are only added after them; a call that is over
\* has added len(rows) to rows_written and its rows are the last len(rows)
\* rows of the file; a call with an empty list changes nothing; and when no
\* call is under way rows_written is the number of data rows.
AppendOnlyStep ==
    /\ rows_written' >= rows_written
    /\ IsPrefix(csv_rows, csv_rows')
    /\ lock = {} => rows_written = Len(csv_rows)
    /\ lock' = {} => rows_written' = Len(csv_rows')
    /\ \A t \in Writers :
          (writers[t].pc # "done" /\ writers'[t].pc = "done") =>
              LET n == Len(writers[t].rows) IN
              /\ rows_written' = rows_written + n
              /\ SubSeq(csv_rows', Len(csv_rows') - n + 1, Len(csv_rows'))
                     = writers[t].rows
              /\ n = 0 => /\ csv_rows' = csv_rows
                          /\ lock' = lock

OwnedFields(r) == <<r.hotels_processed, r.rooms_scraped, r.errors, r.is_busy>>

\* A step that changes a worker's counters or busy flag is a step of that
\* worker's task (or the cancellation, in which the task's own finally
\* blocks run); a step in which the monitor runs on, ends or is cancelled
\* by the orchestrator leaves workers, queue and sink as they are.
OwnerWrites ==
    /\ \A w \in Workers :
          OwnedFields(wk'[w]) # OwnedFields(wk[w]) =>
              WorkerStep(w) \/ CancelRun
    /\ (MonitorStep \/ JoinDone) =>
          UNCHANGED <<wk, hotel_queue, unfinished, csv_rows, rows_written>>

\* C22: the counters and the busy flag of a worker are written by its own
\* task only, and the monitor, running or cancelled, changes no worker,
\* queue or sink state.
C22_OwnedCounters == [][OwnerWrites]_vars

\* The monitor was cancelled after join() returned; a worker has counted a
\* hotel, records and an error, and a worker task is still alive.
C22_Witness ==
    /\ opc = "gather"
    /\ mpc = "cancelled"
    /\ \E w \in Workers :
          /\ wk[w].hotels_processed >= 1
          /\ wk[w].rooms_scraped >= 1
          /\ wk[w].errors >= 1
    /\ \E w \in Workers : wk[w].pc = "idle"

\* The header row is in the file, once, whenever a worker task or the
\* monitor exists or the file holds a data row.
HeaderFirst ==
    /\ Len(csv_header) <= 1
    /\ (\/ \E w \in Workers : wk[w].pc # "absent"
        \/ mpc # "absent"
        \/ csv_rows # <<>>
        \/ rows_written > 0)
       => csv_header = <<csv_headers>>

\* C23: the sink file has its header row before any worker task is
\* started and before any data row, and once written the header row is
\* never written again or changed.
C23_HeaderOnce ==
    [][/\ HeaderFirst
       /\ HeaderFirst'
       /\ csv_header # <<>> => csv_header' = csv_header]_vars

\* Every worker of a run of MaxBrowsers workers has processed a hotel and
\* the first MaxBrowsers hotels have rows under the header.
C23_Witness ==
    /\ csv_header = <<csv_headers>>
    /\ config.num_browsers = MaxBrowsers
    /\ \A w \in Workers : wk[w].hotels_processed >= 1
    /\ \A w \in Workers :
          \E i \in 1 .. Len(csv_rows) : csv_rows[i].hotel_name = w + 1

\* C24: a worker in a wait that follows the date loop of its hotel (the
\* session break, the delay between hotels) has marked the item done
\* before the wait began.
C24_MarkDoneBeforePacing ==
    \A w \in Workers :
        wk[w].pc \in {"session_break", "hotel_delay"} =>
            task_done_calls[wk[w].hotel] = 1

\* The worker tasks that are over.
DeadPcs == {"ended", "cancelled", "raised"}

\* C25 as stated: when a worker task ends while it holds a dequeued item,
\* the item is not put back on the queue and is left not marked done (it
\* stays counted as unfinished, which join() waits for).
C25_DeadWorkerLeavesItem ==
    [][\A w \in Workers :
          (HoldsItem(wk[w]) /\ wk'[w].pc \in DeadPcs) =>
              /\ \A i \in 1 .. Len(hotel_queue') :
                    hotel_queue'[i] # wk[w].hotel
              /\ task_done_calls'[wk[w].hotel] = 0
              /\ unfinished' >= 1]_vars

\* A step of the run: a worker task that ends while it holds a dequeued
\* item has marked the item done, once, and the item is not put back on
\* the queue; the items join() waits for are those in the queue and those
\* held by a worker task that is alive.
ItemSettledOnExit ==
    /\ \A w \in Workers :
          (HoldsItem(wk[w]) /\ wk'[w].pc \in DeadPcs) =>
              /\ \A i \in 1 .. Len(hotel_queue') :
                    hotel_queue'[i] # wk[w].hotel
              /\ dequeued'[wk[w].hotel] = <<w>>
              /\ task_done_calls[wk[w].hotel] = 0
              /\ task_done_calls'[wk[w].hotel] = 1
    /\ unfinished' =
          Len(hotel_queue')
            + Cardinality({w \in Workers : HoldsItem(wk'[w])})

\* C25 amended: a worker task that ends while it holds a dequeued item
\* marks the item done and does not re-queue it, so join() never waits for
\* an item of a dead worker.
C25_DeadWorkerMarksDone == [][ItemSettledOnExit]_vars

\* A worker task was cancelled inside the date loop of its first hotel,
\* after a failed date: the hotel is marked done and the queue still holds
\* an item.
C25_Witness ==
    \E w \in Workers, h \in Hotels :
        /\ wk[w].pc = "cancelled"
        /\ dequeued[h] = <<w>>
        /\ wk[w].hotels_processed = 0
        /\ wk[w].errors >= 1
        /\ task_done_calls[h] = 1
        /\ hotel_queue # <<>>

\* A row of the sink for (h, d) with room type t.
HasRowOfType(rows, h, d, t) ==
    \E i \in 1 .. Len(rows) :
        /\ rows[i].hotel_name = h
        /\ rows[i].date = d
        /\ rows[i].room_type = t

\* C26: a scrape_with_retry call that met an error outside the retryable
\* markers is over with that call, with no backoff wait, and has returned
\* the "Error" placeholder, which is in the sink; a "No Rooms Found" result
\* of the extractor is returned as it is and is in the sink.
C26_TerminalSurfaced ==
    \A w \in Workers :
        /\ last_scrape[w].cause = "terminal" =>
              /\ wk[w].pc # "retry_wait"
              /\ last_scrape[w].ended = "placeholder"
              /\ HasRowOfType(csv_rows, last_scrape[w].hotel,
                              last_scrape[w].day, "Error")
        /\ last_scrape[w].kind = "norooms" =>
              /\ wk[w].pc # "retry_wait"
              /\ last_scrape[w].ended = "returned"
              /\ HasRowOfType(csv_rows, last_scrape[w].hotel,
                              last_scrape[w].day, "No Rooms Found")

\* The waits retry_delay * 1, ..., retry_delay * n.
LinearWaits(n) == [k \in 1 .. n |-> retry_delay * k]

Alive(w) == wk[w].pc \notin {"absent"} \cup DeadPcs

\* A worker task that has its session ends without a failure and without
\* a cancellation only from its wait for an item, with the queue empty.
LeavesWhenEmpty ==
    \A w \in Workers :
        (wk[w].pc \notin {"starting", "ended"} /\ wk'[w].pc = "ended") =>
            /\ wk[w].pc = "idle"
            /\ hotel_queue = <<>>
            /\ ~wk[w].is_busy

\* C28: a worker with a session leaves its loop, without a failure, only
\* when a dequeue timed out and the queue was empty; and every item is
\* eventually dequeued unless no worker task is left alive (items never go
\* back to the queue and ended tasks never come back, so from some point on
\* the queue is empty or no worker is alive).
C28_DrainsQueue ==
    /\ [][LeavesWhenEmpty]_vars
    /\ <>[](hotel_queue = <<>> \/ \A w \in Workers : ~Alive(w))

\* One worker of two failed at its launch; the other dequeued every hotel
\* of a run of two hotels or more and then left its loop.
C28_Witness ==
    \E w \in Workers :
        /\ config.num_browsers = 2
        /\ config.hotels >= 2
        /\ wk[w].pc = "ended"
        /\ <<w, 1>> \in acquired
        /\ \A h \in 1 .. config.hotels : dequeued[h] = <<w>>
        /\ \E v \in Workers : wk[v].pc = "ended" /\ launched[v] = 0

\* The day offsets of hotel h whose date iteration has finished.
DatesDone(h) == { p[2] : p \in { q \in attempted : q[1] = h } }

\* Where a worker that holds a hotel stands in its date loop: the dates
\* before its day offset are finished and no later one is; the date at its
\* day offset is finished when the worker is past its extraction; every
\* record the worker has for the hotel is in the sink.
InDateOrder ==
    \A w \in Workers :
        HoldsItem(wk[w]) =>
            LET r == wk[w] IN
            /\ r.day_offset \in 0 .. (config.days_ahead - 1)
            /\ DatesDone(r.hotel) =
                   IF r.pc \in {"scrape", "retry_wait"}
                   THEN 0 .. (r.day_offset - 1)
                   ELSE 0 .. r.day_offset
            /\ r.pc \in {"session_break", "hotel_delay"} =>
                   r.day_offset = config.days_ahead - 1
            /\ SeqRange(CsvRows(r.hotel_rooms)) \subseteq SeqRange(csv_rows)

\* A step that finishes a date finishes one date, the one at the day offset
\* of a worker in an extraction, for the first time, and the records the
\* extraction returned are in the sink when the step is over.
OneDateAtATime ==
    attempted' # attempted =>
        \E w \in Workers :
            LET p == <<wk[w].hotel, wk[w].day_offset>> IN
            /\ wk[w].pc = "scrape"
            /\ p \notin attempted
            /\ attempted' = attempted \cup {p}
            /\ last_scrape'[w].ended \in {"returned", "placeholder"} =>
                   /\ HasRow(csv_rows', p[1], p[2])
                   /\ ~HasRow(csv_rows, p[1], p[2])

OpenSessions(w) == { s \in acquired \cap open_browsers : s[1] = w }

\* The session of a worker was created with the fingerprint and the proxy
\* of the worker, and a worker has at most one open session.
OwnFingerprint ==
    \A w \in Workers :
        /\ Cardinality(OpenSessions(w)) <= 1
        /\ wk[w].page # None =>
              /\ wk[w].context.user_agent = worker_of(w).user_agent
              /\ wk[w].context.viewport = worker_of(w).viewport
              /\ wk[w].context.locale = worker_of(w).locale
              /\ wk[w].context.timezone_id = worker_of(w).timezone
              /\ wk[w].context.proxy = worker_of(w).proxy

\* A restart that acquired its session: the session held before is closed,
\* the new one is open, is the only one and has the settings of the old
\* one, the counter is zero, hotel and date are the same; after the pause
\* the worker goes on to the delay before the next date of the same hotel
\* (or, after the last date, to the end of the hotel).
RestartStep ==
    \A w \in Workers :
        /\ (wk[w].pc = "restart" /\ wk'[w].pc = "restart_sleep") =>
              /\ wk[w].consecutive_errors >= Threshold
              /\ <<w, wk[w].browser>> \notin open_browsers'
              /\ <<w, wk'[w].browser>> \in acquired' \ acquired
              /\ OpenSessions(w)' = {<<w, wk'[w].browser>>}
              /\ wk'[w].context = wk[w].context
              /\ wk'[w].consecutive_errors = 0
              /\ wk'[w].hotel = wk[w].hotel
              /\ wk'[w].day_offset = wk[w].day_offset
        /\ (/\ wk[w].pc = "restart_sleep"
            /\ wk'[w].pc \notin {"restart_sleep", "cancelled"}) =>
              /\ wk'[w].hotel = wk[w].hotel
              /\ wk'[w].consecutive_errors = 0
              /\ wk'[w].day_offset = wk[w].day_offset
              /\ wk'[w].pc =
                    IF wk[w].day_offset < config.days_ahead - 1
                    THEN "date_delay"
                    ELSE "hotel_delay"

\* C30: a restart that acquires its session closes the session held, the
\* new session has the same user agent, viewport, locale, timezone and
\* proxy, the counter of consecutive errors is zero and the worker goes on
\* with the next date of the same hotel; the fingerprint and the proxy of
\* a worker and of its sessions never change, and a worker has at most one
\* open session.
C30_RestartKeepsFingerprint ==
    [][/\ OwnFingerprint
       /\ OwnFingerprint'
       /\ RestartStep
       /\ deploy' = deploy]_vars

\* A worker with a proxy and a shuffled user agent restarted its session
\* and is in the extraction of the date after the restart.
C30_Witness ==
    \E w \in Workers :
        /\ restarts[w] = 1
        /\ wk[w].browser = 2
        /\ <<w, 2>> \in open_browsers
        /\ wk[w].pc = "scrape"
        /\ wk[w].day_offset = Threshold
        /\ wk[w].context.proxy # None
        /\ wk[w].context.user_agent # wk[w].context.viewport


\* C31: until it is cancelled, the progress monitor never ends on its own
\* while an enqueued item is still queued or being processed by a worker: the
\* step in which it ends starts with the queue empty and with no worker
\* holding an item, the only other way it stops is the orchestrator's
\* cancellation, and once it has ended the queue stays empty.
MonitorEndsWhenIdle ==
    /\ mpc = "running" /\ mpc' = "ended" =>
          /\ hotel_queue = <<>>
          /\ \A w \in Workers : ~HoldsItem(wk[w]) /\ ~wk[w].is_busy
          /\ opc' = opc
    /\ mpc = "running" /\ mpc' \notin {"running", "ended"} =>
          /\ mpc' = "cancelled"
          /\ opc # opc'
          /\ opc' \in {"gather", "cancelled"}
    /\ mpc \in {"ended", "cancelled"} => mpc' = mpc
    /\ mpc = "ended" => hotel_queue = <<>>

C31_MonitorKeepsRunning == [][MonitorEndsWhenIdle]_vars

\* The monitor has ended on its own, before hotel_queue.join() returned, in a
\* run of two workers that have both processed a hotel.
C31_Witness ==
    /\ mpc = "ended"
    /\ opc = "join"
    /\ \A w \in Workers : wk[w].hotels_processed > 0

\* C32: pacing follows three cadences per worker.  The next date of a hotel
\* starts only out of the delay between dates, and no such delay follows the
\* last date; every hotel that is processed is followed by the delay between
\* hotels, out of which alone the item is given back; a session break is
\* taken exactly in the step that makes hotels_processed a positive multiple
\* of SessionBreakEvery, and it is followed by the delay between hotels.
DatePacing(r, r2) ==
    /\ HoldsItem(r) /\ HoldsItem(r2) /\ r2.day_offset = r.day_offset + 1
          => r.pc = "date_delay"
    /\ r2.pc = "date_delay" => r2.day_offset < config.days_ahead - 1

HotelPacing(r, r2) ==
    /\ r2.hotels_processed # r.hotels_processed =>
          /\ r2.hotels_processed = r.hotels_processed + 1
          /\ r2.pc \in {"hotel_delay", "session_break"}
    /\ r.pc = "session_break" /\ r2.pc # r.pc => r2.pc = "hotel_delay"
    /\ HoldsItem(r) /\ ~HoldsItem(r2) => r.pc = "hotel_delay"
    /\ r2.pc = "hotel_delay" /\ r.pc # r2.pc =>
          \/ r.pc = "session_break"
          \/ r2.hotels_processed = r.hotels_processed + 1

SessionBreakPacing(r, r2) ==
    (r2.pc = "session_break" /\ r.pc # "session_break")
       <=> /\ r2.hotels_processed = r.hotels_processed + 1
           /\ r2.hotels_processed > 0
           /\ r2.hotels_processed % SessionBreakEvery = 0

PacingCadence ==
    \A w \in Workers :
       /\ DatePacing(wk[w], wk'[w])
       /\ HotelPacing(wk[w], wk'[w])
       /\ SessionBreakPacing(wk[w], wk'[w])

C32_ThreeCadences == [][PacingCadence]_vars

\* C33: in every state the sink's counter covers the in-memory result list,
\* rows_written >= len(results), and every record of the list has its row in
\* the sink file.
C33_SinkCoversResults ==
    /\ rows_written >= Len(results)
    /\ \A i \in 1 .. Len(results) :
          to_csv_row(results[i]) \in SeqRange(csv_rows)

\* C34: the consecutive-error counter is zero when a hotel has been dequeued
\* and grows by at most one per date, so in a run with days_ahead below
\* Threshold no worker ever enters the restart branch.
CounterStep ==
    \A w \in Workers :
       /\ ~HoldsItem(wk[w]) /\ HoldsItem(wk'[w]) =>
             wk'[w].consecutive_errors = 0
       /\ HoldsItem(wk[w]) /\ HoldsItem(wk'[w]) =>
             /\ wk'[w].consecutive_errors <= wk[w].consecutive_errors + 1
             /\ wk'[w].consecutive_errors > wk[w].consecutive_errors =>
                   <<wk[w].hotel, wk[w].day_offset>> \in attempted' \ attempted
       /\ config.days_ahead < Threshold =>
             /\ restarts'[w] = 0
             /\ wk'[w].pc \notin {"restart", "restart_sleep"}

C34_NoRestartBelowThreshold == [][CounterStep]_vars

\* C35: scrape_with_retry is called exactly once for every (hotel, date)
\* that is processed, and the extraction is invoked at least once and at most
\* max_retries times in that call.  A worker is in an extraction, or in the
\* backoff before one, only for a pair whose call has not ended yet and with
\* fewer than max_retries calls made; the step that ends a call is an
\* extraction's end, records the pair, and has counted 1 .. max_retries calls.
InScrape(r) == r.pc \in {"scrape", "retry_wait"}

PairOf(r) == <<r.hotel, r.day_offset>>

OneCallPerPair ==
    /\ attempted \subseteq attempted'
    /\ \A w \in Workers :
          /\ InScrape(wk[w]) =>
                /\ PairOf(wk[w]) \notin attempted
                /\ wk[w].attempt \in 0 .. (max_retries - 1)
                /\ \A v \in Workers \ {w} :
                      InScrape(wk[v]) => PairOf(wk[v]) # PairOf(wk[w])
          /\ last_scrape'[w] # NoScrape /\ last_scrape'[w] # last_scrape[w] =>
                /\ wk[w].pc = "scrape"
                /\ last_scrape'[w].hotel = wk[w].hotel
                /\ last_scrape'[w].day = wk[w].day_offset
                /\ last_scrape'[w].calls = wk[w].attempt + 1
                /\ last_scrape'[w].calls \in 1 .. max_retries
                /\ attempted' = attempted \cup {PairOf(wk[w])}
    /\ \A p \in attempted' \ attempted :
          \E w \in Workers :
             /\ last_scrape'[w] # NoScrape
             /\ p = <<last_scrape'[w].hotel, last_scrape'[w].day>>

C35_OneBoundedCallPerPair == [][OneCallPerPair]_vars

\* A call that made max_retries extraction calls has just ended for the
\* second date of a hotel, the first date's call having ended before.
C35_Witness ==
    \E w \in Workers :
       /\ last_scrape[w].calls = max_retries
       /\ last_scrape[w].day = 1
       /\ {<<last_scrape[w].hotel, 0>>, <<last_scrape[w].hotel, 1>>}
             \subseteq attempted

\* C36: at every suspension point a worker's is_busy flag is true exactly
\* when the worker holds a dequeued item it has not marked done; the flag is
\* cleared in the step that calls task_done and in no other; so when the
\* queue is empty and no worker is busy, every enqueued item has been marked
\* done or is in the hand-over of a dequeue.
Enqueued ==
    IF opc \in {"start", "sink_ready"} THEN {} ELSE 1 .. config.hotels

BusyIffHolding ==
    /\ \A w \in Workers :
          /\ wk[w].is_busy <=> HoldsItem(wk[w])
          /\ wk[w].is_busy => /\ wk[w].hotel \in Enqueued
                              /\ task_done_calls[wk[w].hotel] = 0
    /\ hotel_queue = <<>> /\ (\A w \in Workers : ~wk[w].is_busy) =>
          \A h \in Enqueued : task_done_calls[h] >= 1 \/ InHandOver(h)

ClearedWithTaskDone ==
    \A w \in Workers :
       LET h == wk[w].hotel IN
       /\ wk[w].is_busy /\ ~wk'[w].is_busy =>
             /\ task_done_calls'[h] = task_done_calls[h] + 1
             /\ unfinished' < unfinished
       /\ wk[w].is_busy /\ wk'[w].is_busy =>
             /\ wk'[w].hotel = h
             /\ task_done_calls'[h] = task_done_calls[h]

C36_BusyFlag ==
    [][BusyIffHolding /\ BusyIffHolding' /\ ClearedWithTaskDone]_vars

\* The queue is empty and no worker is busy while one item is in the
\* hand-over of a dequeue and another has been marked done.
C36_Witness ==
    /\ hotel_queue = <<>>
    /\ \A w \in Workers : ~wk[w].is_busy
    /\ \E h \in Enqueued : InHandOver(h)
    /\ \E h \in Enqueued : task_done_calls[h] = 1

\* C37: the deployment offset is EC2_INSTANCE_ID * num_browsers: the workers
\* of a deployment have the global indices [id * n, id * n + n); two
\* deployments with different instance ids and the same num_browsers have
\* no index in common; two deployments with different instance ids and
\* different num_browsers can have one.
UsedIndices(d) ==
    { global_index(deploy[d], deploy[d].workers[k].worker_id) :
        k \in 1 .. Len(deploy[d].workers) }

OffsetOf(dep) == global_index(dep, 0)

OverlapPossible ==
    \E a, b \in { [NoDeployment EXCEPT !.ec2_instance_id = id,
                                       !.num_browsers = n] :
                    id \in InstanceIds, n \in 1 .. MaxBrowsers } :
       /\ a.ec2_instance_id # b.ec2_instance_id
       /\ a.num_browsers # b.num_browsers
       /\ \E i \in 0 .. (a.num_browsers - 1), j \in 0 .. (b.num_browsers - 1) :
             global_index(a, i) = global_index(b, j)

C37_OffsetRanges ==
    /\ \A d \in Deployments :
          deploy[d].pc = "done" =>
             /\ OffsetOf(deploy[d]) =
                   deploy[d].ec2_instance_id * deploy[d].num_browsers
             /\ UsedIndices(d) =
                   OffsetOf(deploy[d]) ..
                      (OffsetOf(deploy[d]) + deploy[d].num_browsers - 1)
    /\ (/\ deploy[1].pc = "done" /\ deploy[2].pc = "done"
        /\ deploy[1].ec2_instance_id # deploy[2].ec2_instance_id
        /\ deploy[1].num_browsers = deploy[2].num_browsers)
       => UsedIndices(1) \cap UsedIndices(2) = {}
    /\ OverlapPossible

\* Two deployments of MaxBrowsers workers each, with different instance ids,
\* have created their workers.
C37_Witness ==
    /\ deploy[1].pc = "done" /\ deploy[2].pc = "done"
    /\ deploy[1].ec2_instance_id # deploy[2].ec2_instance_id
    /\ deploy[1].num_browsers = MaxBrowsers
    /\ deploy[2].num_browsers = MaxBrowsers
    /\ Len(deploy[1].workers) = MaxBrowsers
    /\ Len(deploy[2].workers) = MaxBrowsers

\* C38: when multi_browser_scrape has returned normally, the progress
\* monitor has stopped, every worker task has ended and no browser is open,
\* the queue is empty with no unfinished item, and no worker is busy or
\* holds an item; the step that returns (it reads the final counters) starts
\* with every worker task ended, and no counter changes afterwards.
TaskOver(r) == r.pc \in {"absent", "ended", "raised"}

ReturnedQuiet ==
    opc = "returned" =>
       /\ mpc \in {"ended", "cancelled"}
       /\ \A w \in Workers :
             /\ TaskOver(wk[w])
             /\ ~wk[w].is_busy
             /\ ~HoldsItem(wk[w])
       /\ open_browsers = {}
       /\ hotel_queue = <<>>
       /\ unfinished = 0

CountersReadAtEnd ==
    /\ opc # "returned" /\ opc' = "returned" =>
          /\ opc = "gather"
          /\ \A w \in Workers : TaskOver(wk[w])
          /\ \A w \in Workers :
                \A s \in acquired : s[1] = w => s \notin open_browsers
          /\ wk' = wk
    /\ opc = "returned" => opc' = opc /\ wk' = wk /\ results' = results

C38_QuietAtReturn == [][ReturnedQuiet' /\ CountersReadAtEnd]_vars

\* The run of two workers has returned, each worker having processed a hotel.
C38_Witness ==
    /\ opc = "returned"
    /\ \A w \in Workers : wk[w].hotels_processed > 0
    /\ Len(ReturnValue) > 0
====
